---------------------------- MODULE Spec2Model ----------------------------
(***************************************************************************)
(* Flight management system: the SQLite store built by create_db.py and    *)
(* the menu operations of FlightManagementCLI (flight_cli.py).             *)
(*                                                                         *)
(* Spec is one session of the menu application, from run() on, on the      *)
(* store create_database leaves; SpecRetimed is such a session on a store  *)
(* an earlier session has changed; SpecSeed is create_db.py run as a       *)
(* script, statement by statement.                                         *)
(*                                                                         *)
(* Time is counted in whole hours.  A DATETIME column holds TEXT; a stored *)
(* timestamp is the record [date, sep, hour], standing for the text        *)
(* "<date><sep><hour>:00:00", where sep is " " (written by the sqlite3     *)
(* datetime adapter for the seed) or "T" (written by datetime.isoformat()  *)
(* for values entered through the menu).  date counts days from the day    *)
(* the seed script was run.                                                *)
(*                                                                         *)
(* A nullable value is a sequence of length 0 (NULL / None / not given) or *)
(* 1 (the value).                                                          *)
(***************************************************************************)
EXTENDS Integers, Sequences, FiniteSets, TLC

VARIABLES
    destinations,   \* table destinations: row i has destination_id = i
    pilots,         \* table pilots: row i has pilot_id = i
    flights,        \* table flights: row i has flight_id = i
    last,           \* the menu operation that ran last: its inputs and how it ended
    output,         \* the lines the last operation printed for its result rows
    writes,         \* number of committed writes of the menu application
    pc,             \* where the running program stands
    conn,           \* the program's connection to the store
    txn             \* the rows of the connection's open transaction, or NULL

vars == <<destinations, pilots, flights, last, output, writes, pc, conn, txn>>

\* ------------------------------------------------------------------ bounds

SeedDestinations == 4   \* rows of destinations_data that are loaded
SeedPilots == 2         \* rows of pilots_data that are loaded
SeedFlights == 2        \* rows of flights_data that are loaded
MaxFlights == 3         \* rows the flights table may grow to
MaxWrites == 1          \* committed writes in one session

\* ---------------------------------------------------------------- nullable

NULL == << >>
Some(x) == <<x>>
IsNull(v) == v = << >>

\* -------------------------------------------------------------- timestamps

BaseHour == 8

\* datetime + timedelta(hours = h), then bound as a parameter: the sqlite3
\* adapter writes datetime.isoformat(" ").
AdaptDatetime(h) ==
    [date |-> (BaseHour + h) \div 24, sep |-> " ", hour |-> (BaseHour + h) % 24]

\* datetime.fromisoformat(text), as hours since the seed day's midnight.
fromisoformat(t) == t.date * 24 + t.hour

SepRank(s) == IF s = " " THEN 0 ELSE 1

\* SQLite's BINARY collation on the two texts: a < b.
TextLess(a, b) ==
    \/ a.date < b.date
    \/ a.date = b.date /\ SepRank(a.sep) < SepRank(b.sep)
    \/ a.date = b.date /\ a.sep = b.sep /\ a.hour < b.hour

\* What the user may type at a date/time prompt: fmt is the strptime
\* format the text has ("other" matches none of the three).
DatetimeInputs ==
    { [fmt |-> "%Y-%m-%d %H:%M",    date |-> 0, hour |-> 3],
      [fmt |-> "%Y-%m-%d %H:%M:%S", date |-> 0, hour |-> 3],
      [fmt |-> "%Y-%m-%d",          date |-> 1, hour |-> 0],
      [fmt |-> "other",             date |-> 0, hour |-> 0] }

formats == <<"%Y-%m-%d %H:%M", "%Y-%m-%d %H:%M:%S", "%Y-%m-%d">>

\* strptime(date_string, fmt) succeeds.
Strptime(date_string, fmt) == date_string.fmt = fmt

\* validate_datetime: NULL stands for the ValueError it raises.
validate_datetime(date_string) ==
    IF \E i \in 1..Len(formats) : Strptime(date_string, formats[i])
    THEN Some([date |-> date_string.date, sep |-> "T",
               hour |-> IF date_string.fmt = "%Y-%m-%d" THEN 0 ELSE date_string.hour])
    ELSE NULL

\* -------------------------------------------------------------------- seed

destinations_data ==
    << [airport_code |-> "LHR", city_name |-> "London", country |-> "United Kingdom",
        timezone |-> "GMT+0", terminal_info |-> "Terminal 5"],
       [airport_code |-> "JFK", city_name |-> "New York", country |-> "United States",
        timezone |-> "EST-5", terminal_info |-> "Terminal 4"],
       [airport_code |-> "CDG", city_name |-> "Paris", country |-> "France",
        timezone |-> "CET+1", terminal_info |-> "Terminal 2E"],
       [airport_code |-> "DXB", city_name |-> "Dubai", country |-> "United Arab Emirates",
        timezone |-> "GST+4", terminal_info |-> "Terminal 3"],
       [airport_code |-> "NRT", city_name |-> "Tokyo", country |-> "Japan",
        timezone |-> "JST+9", terminal_info |-> "Terminal 1"],
       [airport_code |-> "LAX", city_name |-> "Los Angeles", country |-> "United States",
        timezone |-> "PST-8", terminal_info |-> "Terminal B"],
       [airport_code |-> "FRA", city_name |-> "Frankfurt", country |-> "Germany",
        timezone |-> "CET+1", terminal_info |-> "Terminal 1"],
       [airport_code |-> "SIN", city_name |-> "Singapore", country |-> "Singapore",
        timezone |-> "SGT+8", terminal_info |-> "Terminal 3"],
       [airport_code |-> "SYD", city_name |-> "Sydney", country |-> "Australia",
        timezone |-> "AEST+10", terminal_info |-> "Terminal 1"],
       [airport_code |-> "HKG", city_name |-> "Hong Kong", country |-> "Hong Kong",
        timezone |-> "HKT+8", terminal_info |-> "Terminal 1"],
       [airport_code |-> "MAD", city_name |-> "Madrid", country |-> "Spain",
        timezone |-> "CET+1", terminal_info |-> "Terminal 4"],
       [airport_code |-> "AMS", city_name |-> "Amsterdam", country |-> "Netherlands",
        timezone |-> "CET+1", terminal_info |-> "Terminal 3"],
       [airport_code |-> "ZUR", city_name |-> "Zurich", country |-> "Switzerland",
        timezone |-> "CET+1", terminal_info |-> "Terminal A"],
       [airport_code |-> "BOM", city_name |-> "Mumbai", country |-> "India",
        timezone |-> "IST+5:30", terminal_info |-> "Terminal 2"],
       [airport_code |-> "YYZ", city_name |-> "Toronto", country |-> "Canada",
        timezone |-> "EST-5", terminal_info |-> "Terminal 1"] >>

pilots_data ==
    << [first_name |-> "John", last_name |-> "Smith", license_no |-> "ATP001234",
        experience_years |-> 15, phone |-> "+44-20-1234-5678"],
       [first_name |-> "Sarah", last_name |-> "Johnson", license_no |-> "ATP002345",
        experience_years |-> 12, phone |-> "+44-20-2345-6789"],
       [first_name |-> "Michael", last_name |-> "Brown", license_no |-> "ATP003456",
        experience_years |-> 8, phone |-> "+44-20-3456-7890"],
       [first_name |-> "Emma", last_name |-> "Davis", license_no |-> "ATP004567",
        experience_years |-> 10, phone |-> "+44-20-4567-8901"],
       [first_name |-> "James", last_name |-> "Wilson", license_no |-> "ATP005678",
        experience_years |-> 20, phone |-> "+44-20-5678-9012"],
       [first_name |-> "Lisa", last_name |-> "Taylor", license_no |-> "ATP006789",
        experience_years |-> 7, phone |-> "+44-20-6789-0123"],
       [first_name |-> "David", last_name |-> "Anderson", license_no |-> "ATP007890",
        experience_years |-> 18, phone |-> "+44-20-7890-1234"],
       [first_name |-> "Rachel", last_name |-> "Thomas", license_no |-> "ATP008901",
        experience_years |-> 9, phone |-> "+44-20-8901-2345"],
       [first_name |-> "Robert", last_name |-> "Jackson", license_no |-> "ATP009012",
        experience_years |-> 13, phone |-> "+44-20-9012-3456"],
       [first_name |-> "Helen", last_name |-> "White", license_no |-> "ATP010123",
        experience_years |-> 11, phone |-> "+44-20-0123-4567"],
       [first_name |-> "Mark", last_name |-> "Harris", license_no |-> "ATP011234",
        experience_years |-> 16, phone |-> "+44-20-1234-5670"],
       [first_name |-> "Anna", last_name |-> "Martin", license_no |-> "ATP012345",
        experience_years |-> 6, phone |-> "+44-20-2345-6701"] >>

\* (flight_number, departure offset, arrival offset, status, aircraft_type,
\*  capacity, pilot_id, destination_id); the offsets are hours after base_date.
flights_data ==
    << <<"BA101", 2, 4, "Scheduled", "Boeing 737", 180, 1, 1>>,
       <<"BA102", 6, 14, "Scheduled", "Airbus A350", 300, 2, 2>>,
       <<"BA103", 10, 12, "Delayed", "Boeing 777", 350, 3, 3>>,
       <<"BA104", 14, 22, "Scheduled", "Airbus A380", 500, 4, 4>>,
       <<"BA105", 18, 30, "Scheduled", "Boeing 787", 250, 5, 5>>,
       <<"BA106", 26, 38, "Scheduled", "Airbus A320", 150, 6, 6>>,
       <<"BA107", 30, 32, "Scheduled", "Boeing 737", 180, 7, 7>>,
       <<"BA108", 34, 42, "Cancelled", "Airbus A330", 280, 8, 8>>,
       <<"BA109", 38, 50, "Scheduled", "Boeing 777", 350, 9, 9>>,
       <<"BA110", 42, 54, "Scheduled", "Airbus A350", 300, 10, 10>>,
       <<"BA111", 50, 52, "Scheduled", "Boeing 737", 180, 11, 11>>,
       <<"BA112", 54, 56, "Scheduled", "Airbus A320", 150, 12, 12>>,
       <<"BA113", 58, 60, "Scheduled", "Boeing 787", 250, 1, 13>>,
       <<"BA114", 62, 74, "Scheduled", "Airbus A380", 500, 2, 14>>,
       <<"BA115", 66, 78, "Delayed", "Boeing 777", 350, 3, 15>> >>

\* faulty variant: the last two columns of a flights_data tuple are bound
\* in the wrong order
SeedFlightRowSwapped(d) ==
    [flight_number |-> d[1], departure_time |-> AdaptDatetime(d[2]),
     arrival_time |-> AdaptDatetime(d[3]), status |-> d[4], aircraft_type |-> d[5],
     capacity |-> d[6], pilot_id |-> Some(d[8]), destination_id |-> d[7]]

SeedFlightRow(d) ==
    [flight_number |-> d[1], departure_time |-> AdaptDatetime(d[2]),
     arrival_time |-> AdaptDatetime(d[3]), status |-> d[4], aircraft_type |-> d[5],
     capacity |-> d[6], pilot_id |-> Some(d[7]), destination_id |-> d[8]]

\* The store create_database leaves behind, cut to the first SeedDestinations,
\* SeedPilots and SeedFlights rows of its three lists (seeded flight i
\* references pilot i and destination i, so SeedFlights exceeds neither).
create_database ==
    [destinations |-> SubSeq(destinations_data, 1, SeedDestinations),
     pilots       |-> SubSeq(pilots_data, 1, SeedPilots),
     flights      |-> [i \in 1..SeedFlights |-> SeedFlightRow(flights_data[i])]]

\* ------------------------------------------------------------------- store

\* faulty variant: the status prompts accept a text outside their options
StatusesUnchecked == {"Scheduled", "Delayed", "Cancelled", "Boarding"}

\* options=['Scheduled', 'Delayed', 'Cancelled'] of the two status prompts
Statuses == {"Scheduled", "Delayed", "Cancelled"}

\* faulty variant: the connection leaves foreign keys off (SQLite's default)
ForeignKeysOff == FALSE

\* PRAGMA foreign_keys = ON on the CLI's connection.
ForeignKeysOn == TRUE

\* faulty variant: the destination look-up accepts any id
DestinationExistsAlways(destination_id) == TRUE

\* SELECT ... FROM destinations WHERE destination_id = ? returns a row.
DestinationExists(destination_id) == destination_id \in 1..Len(destinations)

\* faulty variant: the pilot look-up accepts any id
PilotExistsAlways(pilot_id) == TRUE

\* SELECT ... FROM pilots WHERE pilot_id = ? returns a row.
PilotExists(pilot_id) == pilot_id \in 1..Len(pilots)

\* faulty variant: the flight look-up accepts any id
FlightExistsAlways(flight_id) == TRUE

\* SELECT ... FROM flights WHERE flight_id = ? returns a row.
FlightExists(flight_id) == flight_id \in 1..Len(flights)

\* faulty variant: the duplicate look-up finds nothing
FlightNumberExistsNever(flight_number) == FALSE

\* SELECT flight_number FROM flights WHERE flight_number = ? returns a row.
FlightNumberExists(flight_number) ==
    \E i \in 1..Len(flights) : flights[i].flight_number = flight_number

\* self.conn before connect_database; a connection as sqlite3.connect
\* returns it (foreign keys are off until a PRAGMA turns them on)
NoConnection == [state |-> "None", foreign_keys |-> FALSE]
Connected == [state |-> "open", foreign_keys |-> FALSE]

\* The three tables as every connection sees them (the committed rows), and
\* as the program's connection sees them: with the rows of its open
\* transaction, if it has one.
Committed == [destinations |-> destinations, pilots |-> pilots, flights |-> flights]
View == IF IsNull(txn) THEN Committed ELSE txn[1]

\* The constraints of table flights on a row to be written: UNIQUE
\* flight_number (against the other rows) and, on a connection with foreign
\* keys on, the two REFERENCES clauses (a NULL pilot_id references nothing).
ConstraintsHold(row, others) ==
    /\ \A i \in others : View.flights[i].flight_number # row.flight_number
    /\ conn.foreign_keys =>
          /\ row.destination_id \in 1..Len(View.destinations)
          /\ IsNull(row.pilot_id) \/ row.pilot_id[1] \in 1..Len(View.pilots)

\* ------------------------------------------------------------- bookkeeping

Blank ==
    [op |-> "none", outcome |-> "none", choice |-> NULL, flight_number |-> NULL,
     flight_id |-> NULL, departure_time |-> NULL, arrival_time |-> NULL,
     status |-> NULL, destination_id |-> NULL, pilot_choice |-> NULL,
     pilot_id |-> NULL, airport_code |-> NULL]

\* faulty variant: a database error is caught neither by the handler nor
\* by the loop, and run() is left
EndsUncaught(l) ==
    /\ last' = l
    /\ output' = << >>
    /\ pc' = IF l.outcome = "database_error" THEN "returned" ELSE pc
    /\ conn' = IF l.outcome = "database_error"
               THEN [conn EXCEPT !.state = "closed"] ELSE conn
    /\ UNCHANGED <<destinations, pilots, flights, writes, txn>>

\* The operation ended without a commit: nothing of the store changes,
\* and the handler returns to the loop.
Ends(l) ==
    /\ last' = l
    /\ output' = << >>
    /\ UNCHANGED <<destinations, pilots, flights, writes, pc, conn, txn>>

Init ==
    /\ destinations = create_database.destinations
    /\ pilots = create_database.pilots
    /\ flights = create_database.flights
    /\ last = Blank
    /\ output = << >>
    /\ writes = 0
    /\ pc = "start"
    /\ conn = NoConnection
    /\ txn = NULL

\* ------------------------------------------------- menu 1: add a new flight

FlightNumberInputs == {flights_data[1][1], "BA201"}
AircraftInputs == {"Airbus A321"}
CapacityInputs == {0, 180}
\* ids: none has 0; 1 has seeded flights; the last has none; one past the last
DestinationIdInputs == {0, 1, SeedDestinations, SeedDestinations + 1}
PilotIdInputs == {0, 1, SeedPilots, SeedPilots + 1}
\* "" (Enter) or the text of an integer
PilotChoiceInputs == {NULL} \cup {Some(n) : n \in PilotIdInputs}

\* faulty variant: < in place of <=, so an arrival equal to the departure passes
ArrivalNotBeforeDeparture(arrival_time, departure_time) ==
    ~ (fromisoformat(arrival_time) < fromisoformat(departure_time))

\* faulty variant: the order of the two times is not checked
ArrivalAnyOrder(arrival_time, departure_time) == TRUE

\* arrival <= departure is refused (the comparison of line 212, negated)
ArrivalAfterDeparture(arrival_time, departure_time) ==
    ~ (fromisoformat(arrival_time) <= fromisoformat(departure_time))

\* Python truth of an optional int: None and 0 are false.
PilotGiven(pilot_id) == ~IsNull(pilot_id) /\ pilot_id[1] # 0

\* faulty variant: the unresolved pilot id is kept
ResolvePilotKeep(pilot_choice) == pilot_choice

\* lines 247-254: the pilot_id that reaches the INSERT
ResolvePilot(pilot_choice) ==
    IF PilotGiven(pilot_choice) /\ ~PilotExists(pilot_choice[1])
    THEN NULL
    ELSE pilot_choice

\* run() is in its loop, at the menu prompt.
AtMenu == pc = "menu"

\* The session may still write, and the table may still grow.
CanWrite == writes < MaxWrites
CanInsert == CanWrite /\ Len(flights) < MaxFlights

\* faulty variant: INSERT OR REPLACE that overwrites the newest row
InsertFlightReplacing(row, l) ==
    IF ConstraintsHold(row, 1..Len(flights))
    THEN /\ flights' = IF Len(flights) = 0 THEN <<row>>
                       ELSE [flights EXCEPT ![Len(flights)] = row]
         /\ writes' = writes + 1
         /\ last' = [l EXCEPT !.outcome = "added", !.flight_id = Some(Len(flights))]
         /\ output' = << >>
         /\ UNCHANGED <<destinations, pilots, pc, conn, txn>>
    ELSE Ends([l EXCEPT !.outcome = "database_error"])

\* INSERT INTO flights ... and commit; a constraint failure raises
\* sqlite3.IntegrityError, which the handler reports.
InsertFlight(row, l) ==
    IF ConstraintsHold(row, 1..Len(flights))
    THEN /\ flights' = Append(flights, row)
         /\ writes' = writes + 1
         /\ last' = [l EXCEPT !.outcome = "added", !.flight_id = Some(Len(flights) + 1)]
         /\ output' = << >>
         /\ UNCHANGED <<destinations, pilots, pc, conn, txn>>
    ELSE Ends([l EXCEPT !.outcome = "database_error"])

add_new_flight ==
    /\ AtMenu
    /\ \E flight_number \in FlightNumberInputs :
         LET l1 == [Blank EXCEPT !.op = "add_new_flight",
                                 !.flight_number = Some(flight_number)] IN
         IF FlightNumberExists(flight_number)
         THEN Ends([l1 EXCEPT !.outcome = "already_exists"])
         ELSE
         \E departure_input \in DatetimeInputs :
           LET departure_time == validate_datetime(departure_input) IN
           IF IsNull(departure_time)
           THEN Ends([l1 EXCEPT !.outcome = "input_error"])
           ELSE
           \E arrival_input \in DatetimeInputs :
             LET arrival_time == validate_datetime(arrival_input)
                 l2 == [l1 EXCEPT !.departure_time = departure_time,
                                  !.arrival_time = arrival_time] IN
             IF IsNull(arrival_time)
             THEN Ends([l1 EXCEPT !.outcome = "input_error",
                                  !.departure_time = departure_time])
             ELSE IF ~ArrivalAfterDeparture(arrival_time[1], departure_time[1])
             THEN Ends([l2 EXCEPT !.outcome = "arrival_not_after_departure"])
             ELSE
             \E destination_id \in DestinationIdInputs :
               LET l3 == [l2 EXCEPT !.destination_id = Some(destination_id)] IN
               IF ~DestinationExists(destination_id)
               THEN Ends([l3 EXCEPT !.outcome = "invalid_destination"])
               ELSE
               /\ CanInsert
               /\ \E aircraft_type \in AircraftInputs, capacity \in CapacityInputs,
                     status \in Statuses, pilot_choice \in PilotChoiceInputs :
                    LET pilot_id == ResolvePilot(pilot_choice)
                        l4 == [l3 EXCEPT !.status = Some(status),
                                         !.pilot_choice = Some(pilot_choice),
                                         !.pilot_id = pilot_id]
                    IN  InsertFlight(
                           [flight_number |-> flight_number,
                            departure_time |-> departure_time[1],
                            arrival_time |-> arrival_time[1],
                            status |-> status, aircraft_type |-> aircraft_type,
                            capacity |-> capacity, pilot_id |-> pilot_id,
                            destination_id |-> destination_id], l4)

\* ------------------------------------------------------------ result rows

\* Every cell of a fetched row is nullable.  str(cell) inside an f-string:
Str(cell) == IF IsNull(cell) THEN "None" ELSE cell[1]

\* Python truth of a text cell: None and "" are false.
Truthy(cell) == ~IsNull(cell) /\ cell[1] # ""

\* The rows of S that no row of S precedes in departure text.
Earliest(S) ==
    { m \in S : \A x \in S :
        ~TextLess(flights[x].departure_time, flights[m].departure_time) }

\* The row the scan of a table delivers first: the smallest rowid.
FirstScanned(S) == CHOOSE m \in S : \A x \in S : m <= x

\* faulty variant: rows of equal departure text come out in the order of
\* the scan only when a listing ran just before, else in the reverse order
RECURSIVE OrderByDepartureTimeUnstable(_)
OrderByDepartureTimeUnstable(S) ==
    IF S = {} THEN << >>
    ELSE LET m == IF last.op = "view_flights_by_criteria"
                  THEN FirstScanned(Earliest(S))
                  ELSE CHOOSE e \in Earliest(S) : \A x \in Earliest(S) : x <= e
         IN  <<m>> \o OrderByDepartureTimeUnstable(S \ {m})

\* ORDER BY f.departure_time over the flights S: by departure text; SQL
\* leaves the order of rows with equal keys open, and SQLite's sorter
\* returns them in the order the scan of flights fed them to it.
RECURSIVE OrderByDepartureTime(_)
OrderByDepartureTime(S) ==
    IF S = {} THEN << >>
    ELSE LET m == FirstScanned(Earliest(S))
         IN  <<m>> \o OrderByDepartureTime(S \ {m})

\* The flights that survive JOIN destinations d ON f.destination_id = d.destination_id
JoinDestinations ==
    { i \in 1..Len(flights) : flights[i].destination_id \in 1..Len(destinations) }

\* LEFT JOIN pilots p ON f.pilot_id = p.pilot_id: the column of p, or NULL
PilotColumn(f, first) ==
    IF ~IsNull(f.pilot_id) /\ f.pilot_id[1] \in 1..Len(pilots)
    THEN Some(IF first THEN pilots[f.pilot_id[1]].first_name
                       ELSE pilots[f.pilot_id[1]].last_name)
    ELSE NULL

\* lines 320-321: the row of the by-destination query
RowByDestination(f) ==
    << Some(f.flight_number), Some(f.departure_time), Some(f.status),
       Some(destinations[f.destination_id].city_name),
       PilotColumn(f, TRUE), PilotColumn(f, FALSE) >>

\* lines 338-339: the row of the by-status query
RowByStatus(f) ==
    << Some(f.flight_number), Some(f.departure_time),
       Some(destinations[f.destination_id].city_name),
       Some(destinations[f.destination_id].airport_code),
       PilotColumn(f, TRUE), PilotColumn(f, FALSE) >>

\* lines 353-354: the row of the all-flights query
RowAllFlights(f) ==
    << Some(f.flight_number), Some(f.departure_time), Some(f.status),
       Some(destinations[f.destination_id].city_name),
       Some(destinations[f.destination_id].airport_code),
       PilotColumn(f, TRUE), PilotColumn(f, FALSE) >>

\* lines 374-377: the line printed for one fetched row (flight[k] is row k + 1)
PrintFlight(flight) ==
    LET pilot_name == IF Truthy(flight[5])
                      THEN <<Str(flight[5]), Str(flight[6])>>
                      ELSE <<"Unassigned">>
    IN  <<Str(flight[1]), Str(flight[2]), Str(flight[3]), Str(flight[4]), pilot_name>>

\* The operation printed its rows and changed nothing.
Shows(l, lines) ==
    /\ last' = l
    /\ output' = lines
    /\ UNCHANGED <<destinations, pilots, flights, writes, pc, conn, txn>>

\* ------------------------------------------- menu 2: view flights by criteria

AirportCodeInputs ==
    { destinations_data[i].airport_code : i \in 1..SeedDestinations } \cup {"lhr", "XXX"}

\* str.upper() on the inputs above
Upper(s) == IF s = "lhr" THEN "LHR" ELSE s

SearchOptions == 1..4

\* WHERE d.airport_code = ? over the join with destinations
ByDestination(airport_code) ==
    { i \in JoinDestinations :
        destinations[flights[i].destination_id].airport_code = airport_code }

\* faulty variant: the WHERE clause on status is missing
ByStatusAny(status) == JoinDestinations

\* WHERE f.status = ? over the join with destinations
ByStatus(status) == { i \in JoinDestinations : flights[i].status = status }

view_flights_by_criteria ==
    /\ AtMenu
    /\ \E choice \in SearchOptions :
         LET l == [Blank EXCEPT !.op = "view_flights_by_criteria",
                                !.choice = Some(choice), !.outcome = "shown"] IN
         CASE choice = 1 ->
                \E code_input \in AirportCodeInputs :
                  LET airport_code == Upper(code_input) IN
                  LET results == OrderByDepartureTime(ByDestination(airport_code)) IN
                    Shows([l EXCEPT !.airport_code = Some(airport_code)],
                          [k \in 1..Len(results) |->
                             PrintFlight(RowByDestination(flights[results[k]]))])
           [] choice = 2 ->
                \E status \in Statuses :
                  LET results == OrderByDepartureTime(ByStatus(status)) IN
                    Shows([l EXCEPT !.status = Some(status)],
                          [k \in 1..Len(results) |->
                             PrintFlight(RowByStatus(flights[results[k]]))])
           [] choice = 3 ->
                LET results == OrderByDepartureTime(JoinDestinations) IN
                  Shows(l, [k \in 1..Len(results) |->
                              PrintFlight(RowAllFlights(flights[results[k]]))])
           [] OTHER -> Ends([l EXCEPT !.outcome = "invalid_option"])

\* ------------------------------------------ menu 3: update flight information

FlightIdInputs == 0..(MaxFlights + 1)
UpdateOptions == 1..4

\* faulty variant: the UPDATE has no WHERE clause and sets the column in
\* every row
UpdateFlightEveryRow(flight_id, column, value, l) ==
    /\ CanWrite
    /\ flights' = [j \in 1..Len(flights) |-> [flights[j] EXCEPT ![column] = value]]
    /\ writes' = writes + 1
    /\ last' = [l EXCEPT !.outcome = "updated"]
    /\ output' = << >>
    /\ UNCHANGED <<destinations, pilots, pc, conn, txn>>

\* faulty variant: a new departure at or after the stored arrival is refused
UpdateFlightOrdered(flight_id, column, value, l) ==
    IF flight_id \notin 1..Len(flights)
    THEN Ends([l EXCEPT !.outcome = "updated"])
    ELSE IF /\ column = "departure_time"
            /\ ~ArrivalAfterDeparture(flights[flight_id].arrival_time, value)
    THEN Ends([l EXCEPT !.outcome = "arrival_not_after_departure"])
    ELSE
    LET row == [flights[flight_id] EXCEPT ![column] = value] IN
    IF ConstraintsHold(row, (1..Len(flights)) \ {flight_id})
    THEN /\ CanWrite
         /\ flights' = [flights EXCEPT ![flight_id] = row]
         /\ writes' = writes + 1
         /\ last' = [l EXCEPT !.outcome = "updated"]
         /\ output' = << >>
         /\ UNCHANGED <<destinations, pilots, pc, conn, txn>>
    ELSE Ends([l EXCEPT !.outcome = "database_error"])

\* UPDATE flights SET <column> = ? WHERE flight_id = ?, then commit (a WHERE
\* that matches no row updates nothing and is no error)
UpdateFlight(flight_id, column, value, l) ==
    IF flight_id \notin 1..Len(flights)
    THEN Ends([l EXCEPT !.outcome = "updated"])
    ELSE
    LET row == [flights[flight_id] EXCEPT ![column] = value] IN
    IF ConstraintsHold(row, (1..Len(flights)) \ {flight_id})
    THEN /\ CanWrite
         /\ flights' = [flights EXCEPT ![flight_id] = row]
         /\ writes' = writes + 1
         /\ last' = [l EXCEPT !.outcome = "updated"]
         /\ output' = << >>
         /\ UNCHANGED <<destinations, pilots, pc, conn, txn>>
    ELSE Ends([l EXCEPT !.outcome = "database_error"])

update_flight_information ==
    /\ AtMenu
    /\ IF Len(flights) = 0
       THEN Ends([Blank EXCEPT !.op = "update_flight_information",
                               !.outcome = "no_flights"])
       ELSE
       \E flight_id \in FlightIdInputs :
         LET l1 == [Blank EXCEPT !.op = "update_flight_information",
                                 !.flight_id = Some(flight_id)] IN
         IF ~FlightExists(flight_id)
         THEN Ends([l1 EXCEPT !.outcome = "flight_not_found"])
         ELSE
         \E update_choice \in UpdateOptions :
           LET l2 == [l1 EXCEPT !.choice = Some(update_choice)] IN
           CASE update_choice = 1 ->
                  \E new_status \in Statuses :
                    UpdateFlight(flight_id, "status", new_status,
                                 [l2 EXCEPT !.status = Some(new_status)])
             [] update_choice = 2 ->
                  \E new_departure \in DatetimeInputs :
                    LET departure_time == validate_datetime(new_departure) IN
                    IF IsNull(departure_time)
                    THEN Ends([l2 EXCEPT !.outcome = "input_error"])
                    ELSE UpdateFlight(flight_id, "departure_time", departure_time[1],
                                      [l2 EXCEPT !.departure_time = departure_time])
             [] update_choice = 3 ->
                  \E new_aircraft \in AircraftInputs :
                    UpdateFlight(flight_id, "aircraft_type", new_aircraft, l2)
             [] OTHER -> Ends([l2 EXCEPT !.outcome = "invalid_option"])

\* --------------------------------------------- menu 4: assign pilot to flight

assign_pilot_to_flight ==
    /\ AtMenu
    /\ \E flight_id \in FlightIdInputs :
         LET l1 == [Blank EXCEPT !.op = "assign_pilot_to_flight",
                                 !.flight_id = Some(flight_id)] IN
         IF ~FlightExists(flight_id)
         THEN Ends([l1 EXCEPT !.outcome = "flight_not_found"])
         ELSE
         \E pilot_id \in PilotIdInputs :
           LET l2 == [l1 EXCEPT !.pilot_id = Some(pilot_id)] IN
           IF ~PilotExists(pilot_id)
           THEN Ends([l2 EXCEPT !.outcome = "pilot_not_found"])
           ELSE UpdateFlight(flight_id, "pilot_id", Some(pilot_id), l2)

\* ------------------------------------------------ menu 5: view pilot schedule

\* WHERE f.pilot_id = ? over the join with destinations
ByPilot(pilot_id) == { i \in JoinDestinations : flights[i].pilot_id = Some(pilot_id) }

\* line 585 and line 598: the fetched row, printed cell by cell
PrintSchedule(f) ==
    << f.flight_number, f.departure_time, f.arrival_time, f.status,
       destinations[f.destination_id].city_name >>

view_pilot_schedule ==
    /\ AtMenu
    /\ \E pilot_id \in PilotIdInputs :
         LET l == [Blank EXCEPT !.op = "view_pilot_schedule",
                                !.pilot_id = Some(pilot_id)] IN
         IF ~PilotExists(pilot_id)
         THEN Ends([l EXCEPT !.outcome = "pilot_not_found"])
         ELSE
         LET results == OrderByDepartureTime(ByPilot(pilot_id)) IN
           Shows([l EXCEPT !.outcome = "shown"],
                 [k \in 1..Len(results) |-> PrintSchedule(flights[results[k]])])

\* ------------------------------- menu 6: view/update destination information

TerminalInputs == {"Terminal 9"}
DestinationOptions == 1..3

\* The seeded city names in the order of SQLite's BINARY collation.
CityOrder ==
    << "Amsterdam", "Dubai", "Frankfurt", "Hong Kong", "London",
       "Los Angeles", "Madrid", "Mumbai", "New York", "Paris",
       "Singapore", "Sydney", "Tokyo", "Toronto", "Zurich" >>
CityRank(city_name) == CHOOSE k \in 1..Len(CityOrder) : CityOrder[k] = city_name

\* faulty variant: COUNT(*) also counts the all-NULL row the LEFT JOIN
\* gives a destination without flights
FlightCountStar(destination_id) ==
    LET n == Cardinality({ i \in 1..Len(flights) :
                             flights[i].destination_id = destination_id })
    IN  IF n = 0 THEN 1 ELSE n

\* COUNT(f.flight_id) of LEFT JOIN flights f ON d.destination_id = f.destination_id
\* in the group of destination d
FlightCount(destination_id) ==
    Cardinality({ i \in 1..Len(flights) : flights[i].destination_id = destination_id })

\* ORDER BY d.city_name over the destinations S (city names are distinct)
RECURSIVE OrderByCityName(_)
OrderByCityName(S) ==
    IF S = {} THEN << >>
    ELSE LET m == CHOOSE x \in S : \A y \in S :
                     CityRank(destinations[x].city_name) <= CityRank(destinations[y].city_name)
         IN  <<m>> \o OrderByCityName(S \ {m})

\* lines 635-636 and 646: one fetched row, printed cell by cell
PrintDestination(destination_id) ==
    LET d == destinations[destination_id] IN
    << destination_id, d.airport_code, d.city_name, d.country, d.terminal_info,
       FlightCount(destination_id) >>

\* faulty variant: the UPDATE has no WHERE clause
UpdateTerminalAll(dest_id, new_terminal) ==
    [i \in 1..Len(destinations) |->
       [destinations[i] EXCEPT !.terminal_info = new_terminal]]

\* UPDATE destinations SET terminal_info = ? WHERE destination_id = ?: the
\* table afterwards
UpdateTerminal(dest_id, new_terminal) ==
    [i \in 1..Len(destinations) |->
       IF i = dest_id THEN [destinations[i] EXCEPT !.terminal_info = new_terminal]
                      ELSE destinations[i]]

view_update_destinations ==
    /\ AtMenu
    /\ \E option \in DestinationOptions :
         LET l == [Blank EXCEPT !.op = "view_update_destinations",
                                !.choice = Some(option)] IN
         CASE option = 1 ->
                LET results == OrderByCityName(1..Len(destinations)) IN
                Shows([l EXCEPT !.outcome = "shown"],
                      [k \in 1..Len(results) |-> PrintDestination(results[k])])
           [] option = 2 ->
                \E dest_id \in DestinationIdInputs :
                  LET l2 == [l EXCEPT !.destination_id = Some(dest_id)] IN
                  IF ~DestinationExists(dest_id)
                  THEN Ends([l2 EXCEPT !.outcome = "destination_not_found"])
                  ELSE
                  \E new_terminal \in TerminalInputs :
                    /\ CanWrite
                    /\ destinations' = UpdateTerminal(dest_id, new_terminal)
                    /\ writes' = writes + 1
                    /\ last' = [l2 EXCEPT !.outcome = "updated"]
                    /\ output' = << >>
                    /\ UNCHANGED <<pilots, flights, pc, conn, txn>>
           [] OTHER -> Ends([l EXCEPT !.outcome = "none"])

\* ------------------------------------------- menu 7: view system statistics

\* The destinations of S that no destination of S exceeds in flight count.
MostFlights(S) == { m \in S : \A x \in S : FlightCount(x) <= FlightCount(m) }

\* ORDER BY flight_count DESC over the destinations S: the query names no
\* second key, so rows of equal count come out as the sorter got them, in
\* the order of the scan of destinations.
RECURSIVE OrderByFlightCountDesc(_)
OrderByFlightCountDesc(S) ==
    IF S = {} THEN << >>
    ELSE LET m == FirstScanned(MostFlights(S))
         IN  <<m>> \o OrderByFlightCountDesc(S \ {m})

\* LIMIT n
Limit(rows, n) == SubSeq(rows, 1, IF Len(rows) < n THEN Len(rows) ELSE n)

\* SELECT status, COUNT(*) FROM flights GROUP BY status: one row for each
\* status some flight has (the rows are kept as a set: the query names no order)
StatusBreakdown ==
    { <<flights[i].status,
        Cardinality({ j \in 1..Len(flights) : flights[j].status = flights[i].status })>> :
      i \in 1..Len(flights) }

\* line 732: one row of the top destinations, printed cell by cell
PrintTopDestination(destination_id) ==
    << destinations[destination_id].city_name,
       destinations[destination_id].airport_code,
       FlightCount(destination_id) >>

view_statistics ==
    /\ AtMenu
    /\ LET results == OrderByFlightCountDesc(1..Len(destinations))
           top_destinations == Limit(results, 5)
       IN  Shows([Blank EXCEPT !.op = "view_statistics", !.outcome = "shown"],
               [summary |-> <<Len(pilots), Len(destinations), Len(flights)>>,
                statuses |-> StatusBreakdown,
                top_destinations |->
                   [k \in 1..Len(top_destinations) |->
                      PrintTopDestination(top_destinations[k])]])

\* ------------------------------------------------------ the session: run()

\* How the two statements of connect_database can end: sqlite3.connect
\* raises sqlite3.Error; it returns a connection and the PRAGMA raises;
\* both succeed.
ConnectOutcomes == {"connect_error", "pragma_error", "connected"}

\* lines 45-53: self.conn when connect_database returns
connect_database(outcome) ==
    CASE outcome = "connect_error" -> NoConnection
      [] outcome = "pragma_error" -> Connected
      [] OTHER -> [Connected EXCEPT !.foreign_keys = ForeignKeysOn]

\* lines 60-61: self.conn after close_database
close_database(c) ==
    IF c.state # "None" THEN [c EXCEPT !.state = "closed"] ELSE c

\* lines 755-758: run() connects, and returns at once when that failed
run_connect ==
    /\ pc = "start"
    /\ \E outcome \in ConnectOutcomes :
         /\ conn' = connect_database(outcome)
         /\ pc' = IF outcome = "connected" THEN "menu" ELSE "returned"
         /\ last' = [Blank EXCEPT !.op = "run", !.outcome = outcome]
         /\ output' = << >>
         /\ UNCHANGED <<destinations, pilots, flights, writes, txn>>

\* The loop is left: the finally clause of lines 816-819 runs, and run() is over.
Returns(l) ==
    /\ pc' = "returned"
    /\ conn' = close_database(conn)
    /\ last' = l
    /\ output' = << >>
    /\ UNCHANGED <<destinations, pilots, flights, writes, txn>>

\* lines 800-802: a menu choice other than 0..7
invalid_option ==
    /\ AtMenu
    /\ Ends([Blank EXCEPT !.op = "run", !.outcome = "invalid_option"])

\* lines 774-778: menu choice 0
quit ==
    /\ AtMenu
    /\ Returns([Blank EXCEPT !.op = "run", !.outcome = "quit"])

\* Ctrl+C at a prompt of the loop or of a handler (every prompt of a handler
\* comes before its write): caught at lines 807-810
KeyboardInterrupt ==
    /\ AtMenu
    /\ Returns([Blank EXCEPT !.op = "run", !.outcome = "interrupt"])

\* End of input at a prompt: input() raises EOFError, which no handler
\* catches; line 811 catches it, and the input() of line 814 raises it
\* again, out of the loop.
EOFError ==
    /\ AtMenu
    /\ Returns([Blank EXCEPT !.op = "run", !.outcome = "end_of_input"])

\* -------------------------------------------- create_db.py run as a script

\* The 15, 12 and 15 rows create_database inserts.
Seeded ==
    [destinations |-> destinations_data,
     pilots       |-> pilots_data,
     flights      |-> [i \in 1..Len(flights_data) |-> SeedFlightRow(flights_data[i])]]

NoRows == [destinations |-> << >>, pilots |-> << >>, flights |-> << >>]

\* The hour of the day at which the script runs.
NowHours == 0..23

\* The statements of __main__ that touch the store, in order: those of
\* create_database (lines 9-139), conn.close() (line 385), and those of
\* demonstrate_queries (lines 150-375).
Script ==
    << "connect", "drop flights", "drop pilots", "drop destinations", "create tables",
       "insert destinations", "insert pilots", "insert flights", "commit", "close",
       "connect again", "update BA103", "update BA108", "update BA115", "update DXB",
       "commit again", "close again" >>

Following(stage) ==
    LET k == CHOOSE i \in 1..Len(Script) : Script[i] = stage
    IN  IF k = Len(Script) THEN "done" ELSE Script[k + 1]

\* faulty variant: the connection is in autocommit mode, every statement
\* is committed as it is executed
ExecuteAutocommit(view) == [committed |-> view, txn |-> NULL]

\* An INSERT or UPDATE on a connection of the default isolation level: the
\* sqlite3 module opens a transaction before it, and the changed rows stay
\* in that transaction until commit().
Execute(view) == [committed |-> Committed, txn |-> Some(view)]

\* The statement of a stage was executed; the script goes on.
Proceeds(stage, next, result, l) ==
    /\ pc' = next
    /\ destinations' = result.committed.destinations
    /\ pilots' = result.committed.pilots
    /\ flights' = result.committed.flights
    /\ txn' = result.txn
    /\ last' = [l EXCEPT !.op = stage, !.outcome = "executed"]
    /\ output' = << >>
    /\ UNCHANGED <<writes, conn>>

\* The statement of a stage raised: nothing in create_db.py catches it, the
\* script ends, and with it the connection and its open transaction.
Raises(stage, exception, l) ==
    /\ pc' = "failed"
    /\ txn' = NULL
    /\ conn' = close_database(conn)
    /\ last' = [l EXCEPT !.op = stage, !.outcome = exception]
    /\ output' = << >>
    /\ UNCHANGED <<destinations, pilots, flights, writes>>

\* Any statement may fail in the engine (disk full, file locked, ...).
MayFail(stage) ==
    /\ pc = stage
    /\ Raises(stage, "OperationalError", Blank)

\* lines 9 and 150: sqlite3.connect, and no PRAGMA after it
script_connect ==
    /\ pc \in {"connect", "connect again"}
    /\ conn' = Connected
    /\ pc' = Following(pc)
    /\ last' = [Blank EXCEPT !.op = pc, !.outcome = "executed"]
    /\ output' = << >>
    /\ UNCHANGED <<destinations, pilots, flights, writes, txn>>

\* lines 13-15: DROP TABLE IF EXISTS, outside any transaction: in effect at
\* once (a table that is not there has no rows)
drop_table ==
    \E table \in {"flights", "pilots", "destinations"} :
      LET stage == IF table = "flights" THEN "drop flights"
                   ELSE IF table = "pilots" THEN "drop pilots"
                   ELSE "drop destinations" IN
      /\ pc = stage
      /\ Proceeds(stage, Following(stage),
                  [committed |-> [Committed EXCEPT ![table] = << >>], txn |-> NULL], Blank)

\* lines 20-60: the three CREATE TABLE statements; the new tables are empty
create_tables ==
    /\ pc = "create tables"
    /\ Proceeds(pc, Following(pc), [committed |-> Committed, txn |-> txn], Blank)

\* UNIQUE airport_code, UNIQUE license_no, and the constraints of flights
RowAccepted(table, row) ==
    CASE table = "destinations" ->
           \A i \in 1..Len(View.destinations) :
             View.destinations[i].airport_code # row.airport_code
      [] table = "pilots" ->
           \A i \in 1..Len(View.pilots) : View.pilots[i].license_no # row.license_no
      [] OTHER -> ConstraintsHold(row, 1..Len(View.flights))

\* lines 85-88, 106-109, 133-136: executemany binds one row after the other
\* to the INSERT; the first row that breaks a constraint raises
\* sqlite3.IntegrityError.
insert_row ==
    \E table \in {"destinations", "pilots", "flights"} :
      LET stage == IF table = "destinations" THEN "insert destinations"
                   ELSE IF table = "pilots" THEN "insert pilots"
                   ELSE "insert flights"
          k == Len(View[table]) + 1
          row == Seeded[table][k]
          l == [Blank EXCEPT !.choice = Some(k)]
      IN  /\ pc = stage
          /\ IF RowAccepted(table, row)
             THEN Proceeds(stage,
                           IF k = Len(Seeded[table]) THEN Following(stage) ELSE stage,
                           Execute([View EXCEPT ![table] = Append(@, row)]), l)
             ELSE Raises(stage, "IntegrityError", l)

\* lines 139 and 374: commit()
script_commit ==
    /\ pc \in {"commit", "commit again"}
    /\ Proceeds(pc, Following(pc), [committed |-> View, txn |-> NULL], Blank)

\* lines 385 and 375: close()
script_close ==
    /\ pc \in {"close", "close again"}
    /\ pc' = Following(pc)
    /\ conn' = close_database(conn)
    /\ txn' = NULL
    /\ last' = [Blank EXCEPT !.op = pc, !.outcome = "executed"]
    /\ output' = << >>
    /\ UNCHANGED <<destinations, pilots, flights, writes>>

\* UPDATE flights SET <column> = <value> WHERE flight_number = <flight_number>
SetWhereNumber(rows, flight_number, column, value) ==
    [i \in 1..Len(rows) |->
       IF rows[i].flight_number = flight_number
       THEN [rows[i] EXCEPT ![column] = value] ELSE rows[i]]

\* (SELECT pilot_id FROM pilots WHERE first_name = ? AND last_name = ?)
PilotNamed(first_name, last_name) ==
    LET found == { i \in 1..Len(View.pilots) :
                     /\ View.pilots[i].first_name = first_name
                     /\ View.pilots[i].last_name = last_name }
    IN  IF found = {} THEN NULL ELSE Some(FirstScanned(found))

\* lines 206-211, 225-228, 245-248: the three UPDATEs of flights; the new
\* departure of BA103 is datetime.now() + timedelta(hours = 12)
update_flight ==
    \/ /\ pc = "update BA103"
       /\ \E now \in NowHours :
            Proceeds(pc, Following(pc),
                     Execute([View EXCEPT !.flights =
                                SetWhereNumber(@, "BA103", "departure_time",
                                               AdaptDatetime(now - BaseHour + 12))]),
                     Blank)
    \/ /\ pc = "update BA108"
       /\ Proceeds(pc, Following(pc),
                   Execute([View EXCEPT !.flights =
                              SetWhereNumber(@, "BA108", "status", "Scheduled")]),
                   Blank)
    \/ /\ pc = "update BA115"
       /\ Proceeds(pc, Following(pc),
                   Execute([View EXCEPT !.flights =
                              SetWhereNumber(@, "BA115", "pilot_id",
                                             PilotNamed("John", "Smith"))]),
                   Blank)

\* lines 293-297: UPDATE destinations SET terminal_info = ... WHERE airport_code = 'DXB'
update_destination ==
    /\ pc = "update DXB"
    /\ Proceeds(pc, Following(pc),
                Execute([View EXCEPT !.destinations =
                           [i \in 1..Len(@) |->
                              IF @[i].airport_code = "DXB"
                              THEN [@[i] EXCEPT !.terminal_info = "Terminal 3 - Concourse A"]
                              ELSE @[i]]]),
                Blank)

\* a statement of the script fails in the engine
script_fails == \E stage \in { Script[i] : i \in 1..Len(Script) } : MayFail(stage)

\* A seeded store after three committed writes of the menu application:
\* add-flight of BA201 (flight_id 16), update-status of flight 1, and a
\* new terminal for destination 2.
MenuEdited ==
    [destinations |-> [Seeded.destinations EXCEPT ![2].terminal_info = "Terminal 9"],
     pilots       |-> Seeded.pilots,
     flights      |->
        Append([Seeded.flights EXCEPT ![1].status = "Cancelled"],
               [flight_number |-> "BA201",
                departure_time |-> [date |-> 0, sep |-> "T", hour |-> 3],
                arrival_time |-> [date |-> 1, sep |-> "T", hour |-> 0],
                status |-> "Delayed", aircraft_type |-> "Airbus A321",
                capacity |-> 180, pilot_id |-> NULL, destination_id |-> 1])]

\* The file before the script runs: not there (no rows), as an earlier run
\* of create_database left it, or as the menu application left it after
\* that; writes counts the menu's writes to it.
InitSeed ==
    /\ \E before \in {NoRows, Seeded, MenuEdited} :
         /\ destinations = before.destinations
         /\ pilots = before.pilots
         /\ flights = before.flights
         /\ writes = IF before = MenuEdited THEN 3 ELSE 0
    /\ last = Blank
    /\ output = << >>
    /\ pc = Script[1]
    /\ conn = NoConnection
    /\ txn = NULL

NextSeed ==
    \/ script_connect
    \/ drop_table
    \/ create_tables
    \/ insert_row
    \/ script_commit
    \/ script_close
    \/ update_flight
    \/ update_destination
    \/ script_fails

SpecSeed == InitSeed /\ [][NextSeed]_vars

\* -------------------------------------------------------------------- next

Next ==
    \/ run_connect
    \/ add_new_flight
    \/ view_flights_by_criteria
    \/ update_flight_information
    \/ assign_pilot_to_flight
    \/ view_pilot_schedule
    \/ view_update_destinations
    \/ view_statistics
    \/ invalid_option
    \/ quit
    \/ KeyboardInterrupt
    \/ EOFError

Spec == Init /\ [][Next]_vars

\* A session on the store an earlier session left behind: that session
\* re-timed the first seeded flight through update-departure (menu 3,
\* option 2), which stores the isoformat() text of the time typed in.
InitRetimed ==
    /\ destinations = create_database.destinations
    /\ pilots = create_database.pilots
    /\ flights = [create_database.flights EXCEPT ![1].departure_time =
                    validate_datetime([fmt |-> "%Y-%m-%d %H:%M",
                                       date |-> 0, hour |-> 3])[1]]
    /\ last = Blank
    /\ output = << >>
    /\ writes = 0
    /\ pc = "start"
    /\ conn = NoConnection
    /\ txn = NULL

SpecRetimed == InitRetimed /\ [][Next]_vars


\* ================================================================== claims

StoreUnchanged == UNCHANGED <<destinations, pilots, flights>>

AddStep == last'.op = "add_new_flight"

\* the row a successful add-flight step appended
Inserted == flights'[Len(flights')]

AddedOne == Len(flights') = Len(flights) + 1 /\ SubSeq(flights', 1, Len(flights)) = flights

\* ---- C1 ----
C1_NumbersUnique ==
    \A i, j \in 1..Len(flights) :
        i # j => flights[i].flight_number # flights[j].flight_number

C1_DuplicateStep ==
    /\ AddStep
    /\ \E i \in 1..Len(flights) : flights[i].flight_number = last'.flight_number[1]

\* C1: an add-flight whose flight number is already stored is rejected as a
\* duplicate and changes no table; and in every reachable state no two
\* stored flights share a flight number.
C1_DuplicateRejected ==
    /\ []C1_NumbersUnique
    /\ [][C1_DuplicateStep =>
            last'.outcome = "already_exists" /\ StoreUnchanged]_vars

\* a flight was added in this session, and adding its number again was refused
C1_Witness ==
    /\ Len(flights) > SeedFlights
    /\ last.op = "add_new_flight"
    /\ last.outcome = "already_exists"
    /\ last.flight_number = Some(flights[Len(flights)].flight_number)

\* ---- C2 ----
C2_UnresolvedStep ==
    /\ AddStep
    /\ ~IsNull(last'.destination_id)
    /\ last'.destination_id[1] \notin 1..Len(destinations)

\* C2: an add-flight whose destination id resolves to no destination row
\* fails as an invalid destination and inserts no flight row.
C2_UnresolvedDestinationRejected ==
    [][C2_UnresolvedStep =>
         last'.outcome = "invalid_destination" /\ StoreUnchanged]_vars

C2_Witness ==
    /\ last.op = "add_new_flight"
    /\ last.outcome = "invalid_destination"
    /\ last.destination_id = Some(Len(destinations) + 1)
    /\ Len(flights) = SeedFlights

\* ---- C3 ----
\* the pilot prompt was answered with a number that is no pilot's id
C3_UnresolvedStep ==
    /\ AddStep
    /\ ~IsNull(last'.pilot_choice)
    /\ ~IsNull(last'.pilot_choice[1])
    /\ last'.pilot_choice[1][1] \notin 1..Len(pilots)

C4_Hours(t) == t.date * 24 + t.hour

C4_NotAfterStep ==
    /\ AddStep
    /\ ~IsNull(last'.departure_time)
    /\ ~IsNull(last'.arrival_time)
    /\ C4_Hours(last'.arrival_time[1]) <= C4_Hours(last'.departure_time[1])

\* C4: an add-flight whose arrival is at or before its departure is
\* rejected and inserts no row; every row add-flight inserts has its
\* arrival strictly after its departure.
C4_ArrivalAfterDeparture ==
    [][/\ C4_NotAfterStep =>
            last'.outcome = "arrival_not_after_departure" /\ StoreUnchanged
       /\ (AddStep /\ last'.outcome = "added") =>
            /\ AddedOne
            /\ C4_Hours(Inserted.arrival_time) > C4_Hours(Inserted.departure_time)]_vars

\* refused with arrival equal to departure
C4_Witness ==
    /\ last.op = "add_new_flight"
    /\ last.outcome = "arrival_not_after_departure"
    /\ fromisoformat(last.arrival_time[1]) = fromisoformat(last.departure_time[1])

\* ---- C5 ----
C5_Ordered(f) == C4_Hours(f.arrival_time) > C4_Hours(f.departure_time)

\* C5 as claimed: in every reachable state every stored flight has its
\* arrival strictly after its departure.
C5_AlwaysOrdered == \A i \in 1..Len(flights) : C5_Ordered(flights[i])

\* the step re-timed flight i through update-departure
C5_Retimed(i) ==
    /\ last'.op = "update_flight_information"
    /\ last'.choice = Some(2)
    /\ last'.flight_id = Some(i)
    /\ last'.outcome = "updated"

\* C5, amended: every seeded flight and every flight add-flight inserts has
\* its arrival strictly after its departure, and a flight keeps that order
\* through every operation except an update-departure of that flight,
\* which stores the new departure without comparing it to the arrival.
C5_OrderedUnlessRetimed ==
    /\ C5_AlwaysOrdered
    /\ \A i \in 1..Len(flights_data) : flights_data[i][3] > flights_data[i][2]
    /\ [][\A i \in 1..Len(flights') :
            \/ C5_Retimed(i)
            \/ i <= Len(flights) /\ ~C5_Ordered(flights[i])
            \/ C5_Ordered(flights'[i])]_vars

\* an update-departure left a flight departing at or after its arrival
C5_Witness ==
    /\ last.op = "update_flight_information"
    /\ last.choice = Some(2)
    /\ last.outcome = "updated"
    /\ ~C5_Ordered(flights[last.flight_id[1]])

\* ---- C6 ----
\* C6: in every reachable state every stored flight's destination_id is
\* the id of a destination row, and its pilot_id is NULL or the id of a
\* pilot row.
C6_ReferencesResolve ==
    /\ \A i \in 1..Len(flights) :
         /\ flights[i].destination_id \in 1..Len(destinations)
         /\ \/ IsNull(flights[i].pilot_id)
            \/ flights[i].pilot_id[1] \in 1..Len(pilots)
    \* the whole seed: every row of flights_data names a seeded pilot and destination
    /\ \A i \in 1..Len(flights_data) :
         /\ flights_data[i][8] \in 1..Len(destinations_data)
         /\ flights_data[i][7] \in 1..Len(pilots_data)

\* an INSERT carrying pilot id 0 was refused by the store
C6_Witness ==
    /\ last.op = "add_new_flight"
    /\ last.outcome = "database_error"
    /\ last.pilot_id = Some(0)
    /\ Len(flights) = SeedFlights

\* ---- C7 ----
C7_WithStatus(status) == { i \in 1..Len(flights) : flights[i].status = status }

C7_Numbers(lines) == { lines[k][1] : k \in 1..Len(lines) }

\* C7: right after a successful update-status of flight f to s, the
\* by-status query for s returns f and the query for any other status does
\* not; and whatever the by-status listing prints for s is exactly the
\* stored flights whose status is s, each once.
C7_StatusListing ==
    /\ ( /\ last.op = "update_flight_information"
         /\ last.choice = Some(1)
         /\ last.outcome = "updated" ) =>
           \A status \in Statuses :
             LET results == OrderByDepartureTime(ByStatus(status)) IN
               (\E k \in 1..Len(results) : results[k] = last.flight_id[1])
                  <=> status = last.status[1]
    /\ ( /\ last.op = "view_flights_by_criteria"
         /\ last.choice = Some(2) ) =>
           /\ C7_Numbers(output) =
                { flights[i].flight_number : i \in C7_WithStatus(last.status[1]) }
           /\ Len(output) = Cardinality(C7_WithStatus(last.status[1]))

\* the listing for a status shows a flight whose status was changed to it
C7_Witness ==
    /\ last.op = "view_flights_by_criteria"
    /\ last.choice = Some(2)
    /\ \E i \in 1..SeedFlights :
         /\ flights[i].status # flights_data[i][4]
         /\ flights[i].status = last.status[1]
         /\ flights[i].flight_number \in C7_Numbers(output)

\* ---- C8 ----
C8_Step == last'.op = "assign_pilot_to_flight"

\* C8: assign-pilot fails and changes nothing when the flight id resolves
\* to no flight or the pilot id to no pilot; when both resolve it succeeds,
\* and then the flight's pilot_id is the given pilot id.
C8_AssignPilot ==
    [][C8_Step =>
         LET flight_id == last'.flight_id[1] IN
         IF flight_id \notin 1..Len(flights)
         THEN last'.outcome = "flight_not_found" /\ StoreUnchanged
         ELSE IF last'.pilot_id[1] \notin 1..Len(pilots)
         THEN last'.outcome = "pilot_not_found" /\ StoreUnchanged
         ELSE /\ last'.outcome = "updated"
              /\ flights'[flight_id].pilot_id = last'.pilot_id]_vars

\* a seeded flight was given another pilot
C8_Witness ==
    /\ last.op = "assign_pilot_to_flight"
    /\ last.outcome = "updated"
    /\ \E i \in 1..SeedFlights :
         /\ last.flight_id = Some(i)
         /\ flights[i].pilot_id = last.pilot_id
         /\ flights[i].pilot_id # Some(flights_data[i][7])

\* ---- C9 ----
C9_Unassigned == { i \in 1..Len(flights) : IsNull(flights[i].pilot_id) }

\* the flights the listing that ran last was asked for
C9_Asked ==
    CASE last.choice = Some(1) ->
           { i \in 1..Len(flights) :
               destinations[flights[i].destination_id].airport_code = last.airport_code[1] }
      [] last.choice = Some(2) -> C7_WithStatus(last.status[1])
      [] OTHER -> 1..Len(flights)

\* C9: a flight stored with a NULL pilot is printed by each of the three
\* flight listings whenever it matches the filter, and its pilot is
\* printed as "Unassigned".
C9_UnassignedListed ==
    ( /\ last.op = "view_flights_by_criteria"
      /\ last.outcome = "shown" ) =>
        \A i \in C9_Unassigned \cap C9_Asked :
          /\ \E k \in 1..Len(output) : output[k][1] = flights[i].flight_number
          /\ \A k \in 1..Len(output) :
               output[k][1] = flights[i].flight_number => output[k][5] = <<"Unassigned">>

\* ---- C10 ----
C10_Listing ==
    /\ last.op \in {"view_flights_by_criteria", "view_pilot_schedule"}
    /\ last.outcome = "shown"

\* C10: every flight listing prints its rows in ascending order of the
\* flights' departure instants.
C10_AscendingDeparture ==
    C10_Listing =>
      \A k \in 1..(Len(output) - 1) :
        C4_Hours(output[k][2]) <= C4_Hours(output[k + 1][2])

\* ---- C11 ----
C11_Referencing(d) == { i \in 1..Len(flights) : flights[i].destination_id = d }

C11_Listed ==
    /\ last.op = "view_update_destinations"
    /\ last.choice = Some(1)

\* C11: list-destinations on a store with N destinations prints exactly N
\* rows, one for each destination, and the count in a destination's row is
\* the number of stored flights that reference it (0 when there are none).
C11_ListDestinations ==
    C11_Listed =>
      /\ Len(output) = Len(destinations)
      /\ \A d \in 1..Len(destinations) :
           \E k \in 1..Len(output) :
             /\ output[k][1] = d
             /\ output[k][6] = Cardinality(C11_Referencing(d))

\* listed after a flight was added: one destination shows more than one
\* flight and another shows none
C11_Witness ==
    /\ C11_Listed
    /\ Len(flights) > SeedFlights
    /\ \E k \in 1..Len(output) : output[k][6] = 0
    /\ \E k \in 1..Len(output) : output[k][6] > 1

\* ---- C12 ----
\* row a ranks before row b: more flights, or as many and the earlier city name
C12_Before(a, b) ==
    \/ a[3] > b[3]
    \/ a[3] = b[3] /\ CityRank(a[1]) < CityRank(b[1])

C12_Cities(top) == { top[k][1] : k \in 1..Len(top) }

\* C12: statistics prints at most 5 top destinations, in descending order
\* of flight count with equal counts in ascending order of city name, and
\* every destination left out ranks after every destination printed.
C12_TopDestinations ==
    last.op = "view_statistics" =>
      LET top == output.top_destinations IN
      /\ Len(top) <= 5
      /\ Len(top) = IF Len(destinations) < 5 THEN Len(destinations) ELSE 5
      /\ \A k \in 1..(Len(top) - 1) : C12_Before(top[k], top[k + 1])
      /\ \A d \in 1..Len(destinations) :
           destinations[d].city_name \notin C12_Cities(top) =>
             \A k \in 1..Len(top) :
               C12_Before(top[k], <<destinations[d].city_name,
                                    destinations[d].airport_code,
                                    Cardinality(C11_Referencing(d))>>)

\* ---- C13 ----
C13_Step == last'.op = "update_flight_information"

\* the update stopped before its UPDATE statement
C13_Abandoned == last'.outcome \in {"flight_not_found", "invalid_option", "input_error"}

\* C13: an update of a flight's status, departure or aircraft whose flight
\* id is the id of no stored flight fails as flight-not-found; an update
\* option other than 1, 2, 3 is refused as invalid, and a departure text in
\* none of the accepted formats as an input error; in each of these cases
\* no table changes.
C13_UpdateFails ==
    [][C13_Step =>
         /\ ( /\ ~IsNull(last'.flight_id)
              /\ last'.flight_id[1] \notin 1..Len(flights) ) =>
                last'.outcome = "flight_not_found"
         /\ ( /\ ~IsNull(last'.choice)
              /\ last'.choice[1] \notin 1..3 ) =>
                last'.outcome = "invalid_option"
         /\ ( /\ last'.choice = Some(2)
              /\ IsNull(last'.departure_time) ) =>
                last'.outcome = "input_error"
         /\ C13_Abandoned => StoreUnchanged]_vars

\* a flight was added, and an update of the id one past it was refused
C13_Witness ==
    /\ last.op = "update_flight_information"
    /\ last.outcome = "flight_not_found"
    /\ last.flight_id = Some(Len(flights) + 1)
    /\ Len(flights) > SeedFlights

\* ---- C14 ----
C14_Flown(p) == { i \in 1..Len(flights) : flights[i].pilot_id = Some(p) }

\* the schedule printed last holds exactly the flights of the pilot asked
\* for, each once; an unresolved pilot id gets no schedule
C14_ScheduleRows ==
    last.op = "view_pilot_schedule" =>
      IF last.pilot_id[1] \in 1..Len(pilots)
      THEN /\ last.outcome = "shown"
           /\ Len(output) = Cardinality(C14_Flown(last.pilot_id[1]))
           /\ { output[k][1] : k \in 1..Len(output) } =
                { flights[i].flight_number : i \in C14_Flown(last.pilot_id[1]) }
      ELSE last.outcome = "pilot_not_found" /\ output = << >>

\* pilot-schedule changes no table
C14_ReadOnly == [][last'.op = "view_pilot_schedule" => StoreUnchanged]_vars

\* C14: pilot-schedule for an existing pilot prints exactly the stored
\* flights whose pilot_id is that pilot (none when there are none), in
\* ascending order of their departure instants; for an id that is no
\* pilot's it fails and prints no schedule.
C14_PilotSchedule ==
    /\ C14_ScheduleRows
    /\ last.op = "view_pilot_schedule" =>
         \A k \in 1..(Len(output) - 1) :
           fromisoformat(output[k][2]) <= fromisoformat(output[k + 1][2])

\* ---- C15 ----
C15_Step ==
    /\ last'.op = "view_update_destinations"
    /\ last'.choice = Some(2)

\* destination i is the same before and after but for its terminal info
C15_SameButTerminal(i) ==
    destinations'[i] = [destinations[i] EXCEPT
                          !.terminal_info = destinations'[i].terminal_info]

C15_CodesAsSeeded ==
    /\ Len(destinations) = SeedDestinations
    /\ \A i \in 1..Len(destinations) :
         destinations[i].airport_code = destinations_data[i].airport_code

\* C15: update-destination-terminal with an id that is no destination's
\* fails and changes no table; otherwise it succeeds and changes nothing
\* but the terminal info of that destination; and every destination keeps
\* the airport code it was seeded with.
C15_UpdateTerminal ==
    /\ []C15_CodesAsSeeded
    /\ [][C15_Step =>
            LET dest_id == last'.destination_id[1] IN
            IF dest_id \notin 1..Len(destinations)
            THEN last'.outcome = "destination_not_found" /\ StoreUnchanged
            ELSE /\ last'.outcome = "updated"
                 /\ Len(destinations') = Len(destinations)
                 /\ C15_SameButTerminal(dest_id)
                 /\ \A i \in 1..Len(destinations) :
                      i # dest_id => destinations'[i] = destinations[i]
                 /\ UNCHANGED <<pilots, flights>>]_vars

\* the last destination got a new terminal, and the first kept its own
C15_Witness ==
    /\ last.op = "view_update_destinations"
    /\ last.outcome = "updated"
    /\ last.destination_id = Some(Len(destinations))
    /\ destinations[Len(destinations)].terminal_info
         # destinations_data[Len(destinations)].terminal_info
    /\ destinations[1].terminal_info = destinations_data[1].terminal_info

\* ---- C16 ----
C16_AllListed ==
    /\ last.op = "view_flights_by_criteria"
    /\ last.choice = Some(3)

C17_Failures ==
    { "already_exists", "input_error", "arrival_not_after_departure",
      "invalid_destination", "database_error", "no_flights", "flight_not_found",
      "pilot_not_found", "destination_not_found", "invalid_option" }

\* a step taken from the menu prompt that leaves the loop
C17_SessionEnds == pc = "menu" /\ pc' # "menu"

\* C17 as claimed: from the menu prompt, an operation that fails is
\* reported and the session is back at the prompt, and the session ends
\* only on the quit selection or a user interrupt.
C17_EndsOnQuitOrInterrupt ==
    [][/\ (pc = "menu" /\ last'.outcome \in C17_Failures) =>
            pc' = "menu" /\ conn' = conn
       /\ C17_SessionEnds => last'.outcome \in {"quit", "interrupt"}]_vars

\* C17, amended: from the menu prompt, an operation that fails is reported
\* and the session is back at the prompt with its connection as it was; the
\* session ends only on the quit selection, a user interrupt, or the end of
\* the input.
C17_SessionContinues ==
    [][/\ (pc = "menu" /\ last'.outcome \in C17_Failures) =>
            pc' = "menu" /\ conn' = conn
       /\ C17_SessionEnds => last'.outcome \in {"quit", "interrupt", "end_of_input"}]_vars

\* the store refused an INSERT, and the session is at the menu prompt
C17_Witness ==
    /\ pc = "menu"
    /\ conn.state = "open"
    /\ last.op = "add_new_flight"
    /\ last.outcome = "database_error"

\* ---- C18 ----
\* C18: whenever run() has returned, by quit, interrupt, an exception or a
\* failed start, a connection it had opened is closed.
C18_ClosedOnReturn == pc = "returned" => conn.state # "open"

\* ---- C19 ----
C19_Inserting == {"insert destinations", "insert pilots", "insert flights"}

\* C19: while create_database inserts, and when one of its inserts has
\* failed, no seeded row is visible in the store; when it has completed,
\* exactly its 15 destinations, 12 pilots and 15 flights are.
C19_AllOrNothing ==
    /\ pc \in C19_Inserting \cup {"commit"} => Committed = NoRows
    /\ (pc = "failed" /\ last.op \in C19_Inserting) => Committed = NoRows
    /\ pc = "close" =>
         /\ Len(destinations) = 15
         /\ Len(pilots) = 12
         /\ Len(flights) = 15
         /\ Committed = Seeded

\* the insert into flights failed, after the destinations and the pilots
\* had been inserted, and the script is over
C19_Witness ==
    /\ pc = "failed"
    /\ last.op = "insert flights"
    /\ conn.state = "closed"
    /\ Len(destinations) = 0

\* ---- C20 ----
\* where the program stands when flights are written: the menu of the CLI,
\* and the INSERT and the UPDATEs of flights in the script
C20_WritesFlights ==
    pc \in {"menu", "insert flights", "update BA103", "update BA108", "update BA115"}

\* C20: wherever the program writes flights, its connection has foreign
\* keys on, in the menu application and in the seed script alike.
C20_ForeignKeysActive == C20_WritesFlights => conn.foreign_keys

\* ---- C21 ----
\* C21: in every reachable state every stored flight has a capacity that
\* is a positive integer.
C21_CapacityPositive == \A i \in 1..Len(flights) : flights[i].capacity > 0

\* ---- C22 ----
\* C22: in every reachable state the status of every stored flight is one
\* of Scheduled, Delayed, Cancelled, and the seed lists only these values.
C22_StatusEnumerated ==
    /\ \A i \in 1..Len(flights) :
          flights[i].status \in {"Scheduled", "Delayed", "Cancelled"}
    /\ \A i \in 1..Len(flights_data) :
          flights_data[i][4] \in {"Scheduled", "Delayed", "Cancelled"}

\* update-status has stored a status other than the one the flight was
\* seeded with
C22_Witness ==
    /\ last.op = "update_flight_information"
    /\ last.choice = Some(1)
    /\ last.outcome = "updated"
    /\ last.flight_id = Some(1)
    /\ flights[1].status = "Cancelled"
    /\ flights_data[1][4] # "Cancelled"

\* ---- C23 ----
\* update-departure of a stored flight, given a timestamp validate_datetime
\* accepts
C23_Step ==
    /\ last'.op = "update_flight_information"
    /\ last'.choice = Some(2)
    /\ ~IsNull(last'.departure_time)
    /\ last'.flight_id[1] \in 1..Len(flights)

\* C23: an update-departure of an existing flight with a well-formed
\* timestamp succeeds whatever the stored arrival is; it stores the new
\* departure in that flight and leaves its arrival, and everything else,
\* as it was.
C23_DepartureUnchecked ==
    [][C23_Step =>
         LET i == last'.flight_id[1] IN
         /\ last'.outcome = "updated"
         /\ flights' = [flights EXCEPT ![i].departure_time = last'.departure_time[1]]
         /\ flights'[i].arrival_time = flights[i].arrival_time
         /\ UNCHANGED <<destinations, pilots>>]_vars

\* update-departure has succeeded with a departure later than the arrival
\* the flight was seeded with and still has
C23_Witness ==
    /\ last.op = "update_flight_information"
    /\ last.choice = Some(2)
    /\ last.outcome = "updated"
    /\ last.flight_id = Some(SeedFlights)
    /\ flights[SeedFlights].departure_time = last.departure_time[1]
    /\ flights[SeedFlights].arrival_time = create_database.flights[SeedFlights].arrival_time
    /\ C4_Hours(flights[SeedFlights].departure_time)
          > C4_Hours(flights[SeedFlights].arrival_time)

\* ---- C24 ----
\* the step is a successful update-status, update-departure, update-aircraft
\* or assign-pilot of a stored flight
C24_Step ==
    /\ last'.op \in {"update_flight_information", "assign_pilot_to_flight"}
    /\ last'.outcome = "updated"
    /\ last'.flight_id[1] \in 1..Len(flights)

\* the column the step's UPDATE sets
C24_Column ==
    IF last'.op = "assign_pilot_to_flight" THEN "pilot_id"
    ELSE CASE last'.choice = Some(1) -> "status"
           [] last'.choice = Some(2) -> "departure_time"
           [] OTHER -> "aircraft_type"

\* C24: a successful update-status, update-departure, update-aircraft or
\* assign-pilot on flight f changes only that one field of f: the flight
\* number and the other fields of f, every other flight, and all
\* destinations and pilots are unchanged; the status and the pilot stored
\* are the ones given.
C24_PartialUpdate ==
    [][C24_Step =>
         LET f == last'.flight_id[1] IN
         /\ flights' = [flights EXCEPT ![f][C24_Column] = flights'[f][C24_Column]]
         /\ flights'[f].flight_number = flights[f].flight_number
         /\ C24_Column = "status" => flights'[f].status = last'.status[1]
         /\ C24_Column = "pilot_id" => flights'[f].pilot_id = last'.pilot_id
         /\ UNCHANGED <<destinations, pilots>>]_vars

\* assign-pilot has given flight 1 the last pilot, and the store differs
\* from the seed in that one field
C24_Witness ==
    /\ last.op = "assign_pilot_to_flight"
    /\ last.outcome = "updated"
    /\ last.flight_id = Some(1)
    /\ flights[1].pilot_id = Some(SeedPilots)
    /\ flights[1].pilot_id # create_database.flights[1].pilot_id
    /\ flights = [create_database.flights EXCEPT ![1].pilot_id = Some(SeedPilots)]

\* ---- C25 ----
\* the pilots are the seeded rows, field by field, and the destination ids
\* are the seeded ids
C25_PilotsAndDestinationsFixed ==
    /\ pilots = create_database.pilots
    /\ DOMAIN destinations = DOMAIN create_database.destinations

C25_Added == last'.op = "add_new_flight" /\ last'.outcome = "added"

\* C25: after any sequence of menu operations the pilots are exactly the
\* seeded rows and the destination ids exactly the seeded ids; every
\* flight stored before a step is stored after it under the same id and
\* number, and the number of flights grows by exactly one in a successful
\* add-flight and not at all in any other step.
C25_NothingDeleted ==
    /\ []C25_PilotsAndDestinationsFixed
    /\ [][/\ \A i \in 1..Len(flights) :
               /\ i \in 1..Len(flights')
               /\ flights'[i].flight_number = flights[i].flight_number
           /\ Len(flights') = IF C25_Added THEN Len(flights) + 1 ELSE Len(flights)]_vars

\* a flight has been added behind the seeded flights, which are all still
\* stored, and the pilots are the seeded ones
C25_Witness ==
    /\ last.op = "add_new_flight"
    /\ last.outcome = "added"
    /\ Len(flights) = SeedFlights + 1
    /\ SubSeq(flights, 1, SeedFlights) = create_database.flights
    /\ pilots = create_database.pilots

\* ---- C26 ----
\* C26: whatever the store held before (nothing, the seed, or the seed as
\* edited through the menu), when create_database has returned the store
\* holds exactly the seed population under the ids of a first run: 15
\* destinations, 12 pilots and 15 flights, flight i carrying the i-th
\* flight number and referencing destination i; so a second run leaves
\* what the first left.
C26_IdempotentReset ==
    pc \in {"close", "connect again"} =>
      /\ Len(destinations) = 15
      /\ Len(pilots) = 12
      /\ DOMAIN flights = 1..15
      /\ \A i \in 1..15 :
            /\ flights[i].flight_number = flights_data[i][1]
            /\ flights[i].destination_id = i
            /\ destinations[i].airport_code = destinations_data[i].airport_code
      /\ Committed = Seeded

\* create_database has run to its end on a store the menu had written to
C26_Witness ==
    /\ pc = "connect again"
    /\ writes > 0
    /\ conn.state = "closed"
    /\ Len(flights) = 15
    /\ flights[1].status = "Scheduled"

\* ---- C27 ----
\* C27: when the setup script has run to its end, create_database and then
\* demonstrate_queries, at whatever hour of the day, every stored flight
\* has its arrival strictly after its departure.
C27_OrderedAfterSetup ==
    pc = "done" => \A i \in 1..Len(flights) : C5_Ordered(flights[i])

=============================================================================
